---- MODULE Spec2Model ----
(***************************************************************************)
(* Model of src/modules/gui/src/libs/api/tauri.ts: the install flow        *)
(* (installPackage / installPackageCommand / handleLineOutput) on the      *)
(* JavaScript event loop, and the pure mapping done by getPackages.        *)
(*                                                                         *)
(* Event loop: every event of the command (stdout line, stderr line,       *)
(* close, error) and the settlement of the spawn() promise is one          *)
(* macrotask; the continuations after an `await` are microtasks, which     *)
(* are all run before the next macrotask.  console output is not program   *)
(* state that is read back and is left out.                                *)
(***************************************************************************)
EXTENDS Integers, Sequences, FiniteSets, TLC

\* ---------------------------------------------------------------- bounds
MaxEvents == 2      \* events one command delivers
MaxLineLen == 3     \* tokens in a text line
MaxPid == 2         \* process identifiers 1..MaxPid
MaxCatalog == 2     \* packages in the remote catalog
MaxInstalled == 2   \* entries in the list of installed packages

\* ---------------------------------------------------------------- values
\* A text line is a sequence of tokens; Needle stands for 'installed:'.
Alphabet == {"installed", ":"}
Needle == <<"installed", ":">>

RECURSIVE SeqsUpTo(_, _)
SeqsUpTo(S, n) ==
  IF n = 0 THEN {<<>>}
  ELSE LET shorter == SeqsUpTo(S, n - 1)
       IN  shorter \cup {Append(s, x) : s \in {t \in shorter : Len(t) = n - 1}, x \in S}

Lines == SeqsUpTo(Alphabet, MaxLineLen)
Pids == 1..MaxPid
ExitCodes == {0, 1, 2}

\* JavaScript values, one record shape for all of them.  code is <<>> for a
\* null/absent code and <<c>> for the number c.
Undefined == [type |-> "undefined", text |-> <<>>, code |-> <<>>, num |-> 0]
Str(t) == [type |-> "string", text |-> t, code |-> <<>>, num |-> 0]
Terminated(c) == [type |-> "object", text |-> <<>>, code |-> c, num |-> 0]
Num(n) == [type |-> "number", text |-> <<>>, code |-> <<>>, num |-> n]

\* payloads the command's events carry
LinePayloads == {Str(t) : t \in Lines}
ClosePayloads == {Terminated(<<c>>) : c \in ExitCodes} \cup {Terminated(<<>>), Undefined}
ErrorPayloads == LinePayloads \cup {Undefined}

\* String.prototype.includes
Includes(text, needle) ==
  \E i \in 0..(Len(text) - Len(needle)) : SubSeq(text, i + 1, i + Len(needle)) = needle

\* JavaScript truthiness and `line || ''`
Truthy(v) ==
  CASE v.type = "undefined" -> FALSE
    [] v.type = "string" -> Len(v.text) > 0
    [] v.type = "number" -> v.num # 0
    [] OTHER -> TRUE
OrEmpty(v) == IF Truthy(v) THEN v ELSE Str(<<>>)

\* the two branches of handleLineOutput
IsSuccessPrefixOnly(line) ==
  \/ line.type = "string" /\ Len(line.text) >= Len(Needle)
       /\ SubSeq(line.text, 1, Len(Needle)) = Needle
  \/ line.type # "string" /\ line.code = <<0>>
IsSuccess(line) ==
  \/ line.type = "string" /\ Includes(line.text, Needle)
  \/ line.type # "string" /\ line.code = <<0>>

IsFailureAnyNonZero(line) == line.type # "string" /\ line.code # <<0>> /\ line.code # <<>>
IsFailure(line) == line.type # "string" /\ line.code = <<1>>

\* promises: resolve / reject settle a pending promise and are no-ops after
PendingPromise == [state |-> "pending", value |-> Undefined]
SettleOverwrite(p, st, v) == [state |-> st, value |-> v]
Settle(p, st, v) == IF p.state = "pending" THEN [state |-> st, value |-> v] ELSE p

\* installPackage: try { await installPackageCommand } catch { console.error }
InstallPackageNoCatch(inner) ==
  IF inner.state = "rejected" THEN [state |-> "rejected", value |-> inner.value]
  ELSE [state |-> "fulfilled", value |-> Undefined]
InstallPackageResult(inner) == [state |-> "fulfilled", value |-> Undefined]

\* microtask queue entries
HandlerTask(line) == [kind |-> "handleLineOutput", line |-> line]
InstallPackageTask == [kind |-> "installPackage", line |-> Undefined]

\* ---------------------------------------------------------------- getPackages
Names == {"a", "b"}
Versions == {"1.0", "2.0"}
CatalogPackages == [full_name : Names, version : {"1.0"}]
InstalledPackages == [full_name : Names, version : Versions]
NotFound == [full_name |-> "", version |-> ""]

\* Array.prototype.find with p.full_name === name (NotFound for undefined)
RECURSIVE FindLast(_, _)
FindLast(installed, name) ==
  IF installed = <<>> THEN NotFound
  ELSE IF installed[Len(installed)].full_name = name THEN installed[Len(installed)]
  ELSE FindLast(SubSeq(installed, 1, Len(installed) - 1), name)
RECURSIVE Find(_, _)
Find(installed, name) ==
  IF installed = <<>> THEN NotFound
  ELSE IF Head(installed).full_name = name THEN Head(installed)
  ELSE Find(Tail(installed), name)

ToGUIPackage(pkg, installed) ==
  LET found == Find(installed, pkg.full_name)
  IN  [full_name |-> pkg.full_name, version |-> pkg.version,
       state |-> IF found # NotFound THEN "INSTALLED" ELSE "AVAILABLE",
       installed_version |-> IF found # NotFound THEN found.version ELSE ""]

getPackagesMap(pkgs, installed) == [i \in 1..Len(pkgs) |-> ToGUIPackage(pkgs[i], installed)]

\* ---------------------------------------------------------------- state
VARIABLES
  child,            \* the promise returned by teaInstallCommand.spawn()
  outcome,          \* the promise of installPackageCommand
  outer,            \* the promise of installPackage
  waiting,          \* handleLineOutput calls suspended on a pending child
  microtasks,       \* continuations ready to run
  killCalls,        \* calls of c.kill()
  resolveCalls,     \* calls of resolve(c.pid) in handleLineOutput
  rejectCalls,      \* calls of reject() in handleLineOutput
  nEvents,          \* events delivered so far
  firstQualifying,  \* history: the first qualifying event, in arrival order
  packages,         \* getPackages: the catalog
  installedPackages, \* getPackages: the installed packages
  guiPackages,      \* getPackages: the returned list
  returned          \* getPackages: has returned

installVars == <<child, outcome, outer, waiting, microtasks, killCalls,
                 resolveCalls, rejectCalls, nEvents, firstQualifying>>
pkgVars == <<packages, installedPackages, guiPackages, returned>>
vars == <<child, outcome, outer, waiting, microtasks, killCalls,
          resolveCalls, rejectCalls, nEvents, firstQualifying,
          packages, installedPackages, guiPackages, returned>>

\* state after installPackage(full_name) has run up to its await: the
\* command is created, the listeners are registered, spawn() was called
InstallInit ==
  /\ child = [state |-> "pending", pid |-> 0]
  /\ outcome = PendingPromise
  /\ outer = PendingPromise
  /\ waiting = <<>>
  /\ microtasks = <<>>
  /\ killCalls = 0
  /\ resolveCalls = 0
  /\ rejectCalls = 0
  /\ nEvents = 0
  /\ firstQualifying = "none"

Init ==
  /\ InstallInit
  /\ packages = <<>>
  /\ installedPackages = <<>>
  /\ guiPackages = <<>>
  /\ returned = FALSE

\* ---------------------------------------------------------------- history
\* what an event dictates, as the specification words it
ContainsInstalled(v) ==
  /\ v.type = "string"
  /\ \E i \in 1..Len(v.text) :
       i + 1 <= Len(v.text) /\ v.text[i] = "installed" /\ v.text[i + 1] = ":"
Dictates(kind, v) ==
  CASE kind = "error" -> "error"
    [] kind # "error" /\ ContainsInstalled(v) -> "installed"
    [] kind # "error" /\ v.type = "object" /\ v.code = <<0>> -> "code0"
    [] kind # "error" /\ v.type = "object" /\ v.code = <<1>> -> "code1"
    [] OTHER -> "none"
DictatedOutcome(q) ==
  CASE q \in {"installed", "code0"} -> "Succeeded"
    [] q \in {"code1", "error"} -> "Failed"
    [] OTHER -> "none"
Observe(kind, v) ==
  firstQualifying' = IF firstQualifying = "none" THEN Dictates(kind, v) ELSE firstQualifying

\* ---------------------------------------------------------------- actions
CanDeliver == nEvents < MaxEvents /\ microtasks = <<>>

\* a call of handleLineOutput(line) runs to `await child`: it is suspended
\* while child is pending, else its continuation is the next microtask
CallHandleLineOutput(line, queue) ==
  IF child.state = "pending"
  THEN /\ waiting' = Append(waiting, line)
       /\ microtasks' = queue
  ELSE /\ waiting' = waiting
       /\ microtasks' = Append(queue, HandlerTask(line))

Stdout(line) ==
  /\ CanDeliver
  /\ nEvents' = nEvents + 1
  /\ CallHandleLineOutput(line, microtasks)
  /\ Observe("stdout", line)
  /\ UNCHANGED <<child, outcome, outer, killCalls, resolveCalls, rejectCalls>>
  /\ UNCHANGED pkgVars

Stderr(line) ==
  /\ CanDeliver
  /\ nEvents' = nEvents + 1
  /\ CallHandleLineOutput(line, microtasks)
  /\ Observe("stderr", line)
  /\ UNCHANGED <<child, outcome, outer, killCalls, resolveCalls, rejectCalls>>
  /\ UNCHANGED pkgVars

Close(payload) ==
  /\ CanDeliver
  /\ nEvents' = nEvents + 1
  /\ CallHandleLineOutput(OrEmpty(payload), microtasks)
  /\ Observe("close", payload)
  /\ UNCHANGED <<child, outcome, outer, killCalls, resolveCalls, rejectCalls>>
  /\ UNCHANGED pkgVars

\* listeners in registration order: reject, then the logging listener
Error(payload) ==
  /\ CanDeliver
  /\ nEvents' = nEvents + 1
  /\ outcome' = Settle(outcome, "rejected", payload)
  /\ CallHandleLineOutput(OrEmpty(payload),
       IF outcome.state = "pending" THEN Append(microtasks, InstallPackageTask)
       ELSE microtasks)
  /\ Observe("error", payload)
  /\ UNCHANGED <<child, outer, killCalls, resolveCalls, rejectCalls>>
  /\ UNCHANGED pkgVars

SpawnResolve(p) ==
  /\ child.state = "pending"
  /\ microtasks = <<>>
  /\ child' = [state |-> "resolved", pid |-> p]
  /\ microtasks' = [i \in 1..Len(waiting) |-> HandlerTask(waiting[i])]
  /\ waiting' = <<>>
  /\ UNCHANGED <<outcome, outer, killCalls, resolveCalls, rejectCalls, nEvents,
                 firstQualifying>>
  /\ UNCHANGED pkgVars

SpawnReject ==
  /\ child.state = "pending"
  /\ microtasks = <<>>
  /\ child' = [state |-> "rejected", pid |-> 0]
  /\ microtasks' = [i \in 1..Len(waiting) |-> HandlerTask(waiting[i])]
  /\ waiting' = <<>>
  /\ UNCHANGED <<outcome, outer, killCalls, resolveCalls, rejectCalls, nEvents,
                 firstQualifying>>
  /\ UNCHANGED pkgVars

\* the rest of handleLineOutput after `await child`
handleLineOutput ==
  /\ microtasks # <<>>
  /\ Head(microtasks).kind = "handleLineOutput"
  /\ LET line == Head(microtasks).line
         rest == Tail(microtasks)
         settles == outcome.state = "pending"
     IN  IF child.state = "rejected"
         THEN \* `await child` throws: the handler's own promise rejects
              /\ microtasks' = rest
              /\ UNCHANGED <<outcome, killCalls, resolveCalls, rejectCalls>>
         ELSE IF IsSuccess(line)
         THEN /\ killCalls' = killCalls + 1
              /\ resolveCalls' = resolveCalls + 1
              /\ outcome' = Settle(outcome, "fulfilled", Num(child.pid))
              /\ microtasks' = IF settles THEN Append(rest, InstallPackageTask) ELSE rest
              /\ UNCHANGED rejectCalls
         ELSE IF IsFailure(line)
         THEN /\ rejectCalls' = rejectCalls + 1
              /\ outcome' = Settle(outcome, "rejected", Undefined)
              /\ microtasks' = IF settles THEN Append(rest, InstallPackageTask) ELSE rest
              /\ UNCHANGED <<killCalls, resolveCalls>>
         ELSE /\ microtasks' = rest
              /\ UNCHANGED <<outcome, killCalls, resolveCalls, rejectCalls>>
  /\ UNCHANGED <<child, outer, waiting, nEvents, firstQualifying>>
  /\ UNCHANGED pkgVars

\* installPackage resumes after `await installPackageCommand(full_name)`
installPackage ==
  /\ microtasks # <<>>
  /\ Head(microtasks).kind = "installPackage"
  /\ microtasks' = Tail(microtasks)
  /\ outer' = InstallPackageResult(outcome)
  /\ UNCHANGED <<child, outcome, waiting, killCalls, resolveCalls, rejectCalls,
                 nEvents, firstQualifying>>
  /\ UNCHANGED pkgVars

Next ==
  \/ \E line \in LinePayloads : Stdout(line)
  \/ \E line \in LinePayloads : Stderr(line)
  \/ \E payload \in ClosePayloads : Close(payload)
  \/ \E payload \in ErrorPayloads : Error(payload)
  \/ \E p \in Pids : SpawnResolve(p)
  \/ SpawnReject
  \/ handleLineOutput
  \/ installPackage

Spec == Init /\ [][Next]_vars

\* ---------------------------------------------------------------- getPackages
PkgInit ==
  /\ InstallInit
  /\ packages \in SeqsUpTo(CatalogPackages, MaxCatalog)
  /\ installedPackages \in SeqsUpTo(InstalledPackages, MaxInstalled)
  /\ guiPackages = <<>>
  /\ returned = FALSE

getPackages ==
  /\ ~returned
  /\ guiPackages' = getPackagesMap(packages, installedPackages)
  /\ returned' = TRUE
  /\ UNCHANGED <<packages, installedPackages>>
  /\ UNCHANGED installVars

PkgNext == getPackages

PkgSpec == PkgInit /\ [][PkgNext]_vars

\* ---------------------------------------------------------------- properties
Settled(p) == p.state # "pending"
Quiescent == microtasks = <<>> /\ (child.state # "pending" \/ waiting = <<>>)
Running == microtasks # <<>> /\ Head(microtasks).kind = "handleLineOutput"

\* C1: once the promise of installPackageCommand is fulfilled or rejected, no
\* later step changes its state or its value.
C1_OutcomeSetOnce == [][Settled(outcome) => outcome' = outcome]_vars
\* a settled outcome on which handleLineOutput called resolve/reject again
C1_Witness == Settled(outcome) /\ resolveCalls + rejectCalls >= 2

\* C2: whenever the child was spawned and the outcome is settled, success or
\* failure, kill has been called on the child.
C2_KilledBeforeResolution ==
  (child.state = "resolved" /\ Settled(outcome)) => killCalls >= 1

\* C3: the kill-and-resolve path of handleLineOutput runs at most once for one
\* call: kill is called at most once and resolve/reject at most once.
C3_KillResolveOnce == killCalls <= 1 /\ resolveCalls + rejectCalls <= 1

\* C4: the promise of installPackage is never rejected, and once the inner
\* promise has settled and the pending continuations have run it is fulfilled.
C4_InstallPackageNeverRejects ==
  /\ outer.state # "rejected"
  /\ (Settled(outcome) /\ microtasks = <<>>) => outer.state = "fulfilled"
\* installPackage has returned after the inner promise rejected with a payload
C4_Witness ==
  /\ outer.state = "fulfilled"
  /\ outcome.state = "rejected"
  /\ outcome.value.type = "string"

\* C5: the result of installPackage carries the pid when the install succeeded
\* and is not a success result when it failed.
C5_ResultTellsOutcomesApart ==
  Settled(outer) =>
    /\ outcome.state = "fulfilled" => outer = [state |-> "fulfilled", value |-> Num(child.pid)]
    /\ outcome.state = "rejected" =>
         (outer.state = "rejected" \/ outer.value.type # "number")

\* C6: when the spawn failed, or the error signal came before any qualifying
\* event, the invocation ends Failed once every handler has run: it is neither
\* pending nor Succeeded.
C6_LaunchFailureFails ==
  (Quiescent /\ (child.state = "rejected" \/ firstQualifying = "error"))
    => outcome.state = "rejected"

\* C7: while the outcome is pending and the child is spawned, handling a line
\* that contains 'installed:' or a completion event with code 0 fulfils the
\* outcome with the child's pid, and handling a completion event with code 1
\* rejects it with no value.
C7_Expected(line) ==
  IF ContainsInstalled(line) \/ (line.type = "object" /\ line.code = <<0>>)
  THEN [state |-> "fulfilled", value |-> Num(child.pid)]
  ELSE IF line.type = "object" /\ line.code = <<1>>
  THEN [state |-> "rejected", value |-> Undefined]
  ELSE outcome
C7_QualifyingEventSetsOutcome ==
  [][(Running /\ child.state = "resolved" /\ outcome.state = "pending"
        /\ Dictates("line", Head(microtasks).line) # "none")
      => outcome' = C7_Expected(Head(microtasks).line)]_vars
\* the handler has fulfilled the outcome with the pid of the spawned child
C7_Witness ==
  /\ child.state = "resolved"
  /\ outcome = [state |-> "fulfilled", value |-> Num(child.pid)]
  /\ killCalls = 1 /\ rejectCalls = 0

\* C8: handling a line without 'installed:', a completion code other than 0
\* and 1, or a completion event without payload changes neither the outcome
\* nor the kill/resolve/reject calls, and an invocation that has received only
\* such events is pending with the child not killed.
C8_NonQualifyingFrame ==
  /\ [](firstQualifying = "none" =>
          outcome.state = "pending" /\ killCalls = 0 /\ outer.state = "pending")
  /\ [][(Running /\ Dictates("line", Head(microtasks).line) = "none")
          => UNCHANGED <<outcome, killCalls, resolveCalls, rejectCalls, outer>>]_vars
\* only non-qualifying events were delivered and every handler has run
C8_Witness ==
  /\ nEvents >= 2 /\ firstQualifying = "none"
  /\ child.state = "resolved" /\ Quiescent
  /\ outcome.state = "pending"

\* C9: a settled outcome is the one the first qualifying event, in arrival
\* order, dictates.
C9_FirstQualifyingWins ==
  /\ outcome.state = "fulfilled" => DictatedOutcome(firstQualifying) = "Succeeded"
  /\ outcome.state = "rejected" => DictatedOutcome(firstQualifying) = "Failed"

\* C10: getPackages returns one entry per catalog package in catalog order;
\* an entry is INSTALLED exactly when an installed package has its full_name,
\* with the version of the first such package, else AVAILABLE with ''.
C10_GetPackages ==
  returned =>
    /\ Len(guiPackages) = Len(packages)
    /\ \A i \in 1..Len(packages) :
         LET g == guiPackages[i]
             hits == {j \in 1..Len(installedPackages) :
                        installedPackages[j].full_name = packages[i].full_name}
         IN  /\ g.full_name = packages[i].full_name
             /\ g.state = (IF hits # {} THEN "INSTALLED" ELSE "AVAILABLE")
             /\ hits = {} => g.installed_version = ""
             /\ hits # {} =>
                  \E j \in hits : /\ \A k \in hits : j <= k
                                  /\ g.installed_version = installedPackages[j].version
\* a returned list with an entry installed twice under different versions
C10_Witness ==
  /\ returned
  /\ \E i \in 1..Len(guiPackages) : \E j, k \in 1..Len(installedPackages) :
       /\ j < k
       /\ installedPackages[j].full_name = guiPackages[i].full_name
       /\ installedPackages[k].full_name = guiPackages[i].full_name
       /\ installedPackages[j].version # installedPackages[k].version
       /\ guiPackages[i].state = "INSTALLED"
====
